---- MODULE Spec2Model ----
(***************************************************************************)
(* Model of the archive-validation pipeline of src/main.py:                *)
(* get_ai_analysis, analyze_file_content and the /process-zip handler      *)
(* process_zip_file, for one request.  Text is a sequence of characters    *)
(* (a character is a one-token string); file names are sequences of        *)
(* characters too, so that startswith / endswith / the extension lookup    *)
(* are computed and not assumed.                                           *)
(***************************************************************************)
EXTENDS Integers, Sequences, FiniteSets, TLC

VARIABLES upload, pc, dirExists, created, extracted, idx,
          file_analyses, has_python_files, all_python_content,
          validation_message, ai_analysis, is_valid, calls, rmtree_log,
          exc, outcome

vars == <<upload, pc, dirExists, created, extracted, idx,
          file_analyses, has_python_files, all_python_content,
          validation_message, ai_analysis, is_valid, calls, rmtree_log,
          exc, outcome>>

----------------------------------------------------------------------------
(* Bounds of the model *)

\* largest number of entries in an uploaded archive
MaxFiles == 2

----------------------------------------------------------------------------
(* Text helpers *)

Min(a, b) == IF a < b THEN a ELSE b

\* s[:n]
Take(s, n) == SubSeq(s, 1, Min(n, Len(s)))

\* s.startswith(p)
StartsWith(s, p) == Len(s) >= Len(p) /\ SubSeq(s, 1, Len(p)) = p

\* s.endswith(p)
EndsWith(s, p) ==
    Len(s) >= Len(p) /\ SubSeq(s, Len(s) - Len(p) + 1, Len(s)) = p

\* marker in s   (substring search)
Contains(s, marker) ==
    \E i \in 1..(Len(s) + 1) :
        i + Len(marker) - 1 <= Len(s)
        /\ SubSeq(s, i, i + Len(marker) - 1) = marker

\* sep.join(parts)
RECURSIVE Join(_, _)
Join(sep, parts) ==
    IF parts = <<>> THEN <<>>
    ELSE IF Len(parts) = 1 THEN parts[1]
    ELSE parts[1] \o sep \o Join(sep, Tail(parts))

\* a text of n characters
Chars(n) == [i \in 1..n |-> "a"]

\* an optional string: Python None, or a str
None == [null |-> TRUE, s |-> <<>>]
Str(s) == [null |-> FALSE, s |-> s]

----------------------------------------------------------------------------
(* Literals of the source *)

PreviewLimit == 1000
TruncationMarker == <<"...">>
HiddenPrefix == <<".", "_">>
PySuffix == <<".", "p", "y">>
ZipSuffix == <<".", "z", "i", "p">>
\* the cross-mark and check-mark emoji of the two verdict markers are written
\* "X" and "V"
RejectMarker == <<"X", " ", "REJECT">>
AcceptMarker == <<"V", " ", "PUBLISH">>
HiddenContent == <<"Hidden system file">>
ImageContent == <<"Binary image file">>
BinaryContent == <<"Binary file">>
Separator == <<"\n", "\n">>
MsgNotZip == <<"File must be a ZIP file">>
MsgNoPython == <<"No Python files found in the ZIP">>
MsgPlaceholder == <<"Code appears to be a placeholder or test code">>
MsgSuccess == <<"Validation successful">>
MsgFailedPrefix == <<"Validation failed: ">>
MsgJoin == <<"; ">>

----------------------------------------------------------------------------
(* The LLM backend, seen from get_ai_analysis *)

\* texts the backend may put in choices[0].message.content: one with
\* neither verdict marker, one ending in the reject marker
Replies ==
    { <<"o", "k">>,
      <<"n", "o", " ">> \o RejectMarker }

\* what one POST to /chat/completions can produce: a transport failure, a
\* non-200 status, or a 200 whose JSON body holds no choice at all (the
\* lookup raises) or choices[0].message.content, a string or JSON null
BackendOutcomes ==
    { [kind |-> "transport", status |-> 0, choices |-> <<>>] }
    \cup { [kind |-> "response", status |-> 500, choices |-> <<>>] }
    \cup { [kind |-> "response", status |-> 200, choices |-> <<>>] }
    \cup { [kind |-> "response", status |-> 200, choices |-> <<None>>] }
    \cup { [kind |-> "response", status |-> 200, choices |-> <<Str(r)>>] :
             r \in Replies }

\* str(response.status_code)
StatusStr(n) == IF n = 200 THEN "200" ELSE IF n = 429 THEN "429" ELSE "500"

\* get_ai_analysis(content, description, setup): the prompt embeds the three
\* arguments; the value returned depends on the backend's answer b only.
get_ai_analysis(content, b) ==
    IF b.kind = "transport"
    THEN Str(<<"Error in AI analysis: ", "connect">>)
    ELSE IF b.status = 200
         THEN IF b.choices = <<>>
              THEN Str(<<"Error in AI analysis: ", "index">>)
              ELSE b.choices[1]
         ELSE Str(<<"Error: API returned status code ", StatusStr(b.status)>>)

----------------------------------------------------------------------------
(* File names and types *)

Max(S) == CHOOSE x \in S : \A y \in S : y <= x

\* os.path.splitext(name)[1], as mimetypes.guess_type uses it: the suffix
\* from the last dot, unless only dots precede it
Ext(name) ==
    LET dots == { i \in 1..Len(name) : name[i] = "." } IN
    IF dots = {} THEN <<>>
    ELSE LET d == Max(dots) IN
         IF \E j \in 1..(d - 1) : name[j] # "."
         THEN SubSeq(name, d, Len(name))
         ELSE <<>>

\* mimetypes.guess_type(file_path)[0], or 'unknown' when it is None
GuessType(name) ==
    LET e == Ext(name) IN
    IF e = <<".", "p", "y">> THEN <<"text", "/", "x-python">>
    ELSE IF e = <<".", "t", "x", "t">> THEN <<"text", "/", "plain">>
    ELSE IF e = <<".", "m", "d">> THEN <<"text", "/", "markdown">>
    ELSE IF e = <<".", "p", "n", "g">> THEN <<"image", "/", "png">>
    ELSE <<"unknown">>

\* file_type == 'text/x-python' or file_type == 'text/plain'
IsAnalyzedType(file_type) ==
    \/ file_type = <<"text", "/", "x-python">>
    \/ file_type = <<"text", "/", "plain">>

\* os.path.basename(file_path).startswith('._')
IsHidden(name) == StartsWith(name, HiddenPrefix)

\* a qualifying-file test that goes by the inferred type instead of the suffix
IsPythonByType(name) == IsAnalyzedType(GuessType(name))

\* file.endswith('.py')
IsPython(name) == EndsWith(name, PySuffix)

\* content[:1000] + "..." if len(content) > 1000 else content
Preview(content) ==
    IF Len(content) > PreviewLimit
    THEN Take(content, PreviewLimit) \o TruncationMarker
    ELSE content

\* analyze_file_content(file_path, description, setup) on the extracted file
\* f, the backend answering b if it is asked.  The result is the record
\* returned and the list of texts handed to get_ai_analysis on the way.
analyze_file_content(f, b) ==
    IF IsHidden(f.name)
    THEN [record |-> [file_name |-> f.name,
                      file_type |-> <<"hidden">>,
                      file_size |-> Len(f.data),
                      content |-> HiddenContent,
                      ai_analysis |-> Str(<<>>)],
          sent |-> <<>>]
    ELSE LET file_type == GuessType(f.name) IN
         IF StartsWith(file_type, <<"text", "/">>)
         THEN IF ~f.decodable
              THEN [record |-> [file_name |-> f.name,
                                error |-> <<"Error analyzing file: ", "decode">>],
                    sent |-> <<>>]
              ELSE [record |-> [file_name |-> f.name,
                                file_type |-> file_type,
                                file_size |-> Len(f.data),
                                content |-> Preview(f.data),
                                ai_analysis |->
                                    IF IsAnalyzedType(file_type)
                                    THEN get_ai_analysis(f.data, b)
                                    ELSE Str(<<>>)],
                    sent |-> IF IsAnalyzedType(file_type)
                             THEN <<f.data>> ELSE <<>>]
         ELSE [record |-> [file_name |-> f.name,
                           file_type |-> file_type,
                           file_size |-> Len(f.data),
                           content |-> IF StartsWith(file_type, <<"image", "/">>)
                                       THEN ImageContent ELSE BinaryContent,
                           ai_analysis |-> Str(<<>>)],
               sent |-> <<>>]

----------------------------------------------------------------------------
(* Inputs of one request *)

NamePy == <<"a", ".", "p", "y">>
NameHiddenPy == <<".", "_", "a", ".", "p", "y">>
NameTxt == <<"n", ".", "t", "x", "t">>
NameMd == <<"r", ".", "m", "d">>
NamePng == <<"l", ".", "p", "n", "g">>
NameNoExt == <<"m">>

\* the entries an archive may hold: a name, the decoded text and whether the
\* bytes decode as UTF-8 at all
ArchiveFiles ==
    { [name |-> NamePy, data |-> Chars(n), decodable |-> TRUE] :
        n \in {0, PreviewLimit, PreviewLimit + 1} }
    \cup { [name |-> NamePy, data |-> Chars(1), decodable |-> FALSE] }
    \cup { [name |-> NameTxt, data |-> Chars(1), decodable |-> d] :
             d \in BOOLEAN }
    \cup { [name |-> n, data |-> Chars(1), decodable |-> TRUE] :
             n \in {NameHiddenPy, NameMd, NamePng, NameNoExt} }

RECURSIVE SeqsUpTo(_, _)
SeqsUpTo(S, n) ==
    IF n = 0 THEN { <<>> }
    ELSE LET shorter == SeqsUpTo(S, n - 1) IN
         shorter \cup { Append(q, x) : q \in shorter, x \in S }

\* kind: "ok" a readable, well-formed archive; "badzip" bytes zipfile cannot
\* open; "readfail" the upload stream fails while being read
Uploads ==
    { [filename |-> <<"m", ".", "t", "x", "t">>, kind |-> "ok", files |-> <<>>] }
    \cup { [filename |-> <<"m", ".", "z", "i", "p">>, kind |-> k, files |-> <<>>] :
             k \in {"badzip", "readfail"} }
    \cup { [filename |-> <<"m", ".", "z", "i", "p">>, kind |-> "ok", files |-> fs] :
             fs \in SeqsUpTo(ArchiveFiles, MaxFiles) }

NoOutcome ==
    [kind |-> "pending", isValid |-> FALSE, message |-> <<>>,
     files_analyzed |-> <<>>, ai_analysis |-> None, detail |-> "none"]

Verdict(valid, msg, files, analysis) ==
    [kind |-> "verdict", isValid |-> valid, message |-> msg,
     files_analyzed |-> files, ai_analysis |-> analysis, detail |-> "none"]

ServerError(kind, detail) ==
    [kind |-> kind, isValid |-> FALSE, message |-> <<>>,
     files_analyzed |-> <<>>, ai_analysis |-> None, detail |-> detail]

Init ==
    /\ upload \in Uploads
    /\ pc = "start"
    /\ dirExists = FALSE
    /\ created = FALSE
    /\ extracted = <<>>
    /\ idx = 1
    /\ file_analyses = <<>>
    /\ has_python_files = FALSE
    /\ all_python_content = <<>>
    /\ validation_message = <<>>
    /\ ai_analysis = None
    /\ is_valid = FALSE
    /\ calls = <<>>
    /\ rmtree_log = <<>>
    /\ exc = "none"
    /\ outcome = NoOutcome

----------------------------------------------------------------------------
(* process_zip_file *)

\* lines 156-165: the extension gate, then tempfile.mkdtemp
CheckExtension ==
    /\ pc = "start"
    /\ IF ~EndsWith(upload.filename, ZipSuffix)
       THEN /\ outcome' = Verdict(FALSE, MsgNotZip, <<>>, None)
            /\ pc' = "done"
            /\ UNCHANGED <<dirExists, created>>
       ELSE /\ created' = TRUE
            /\ dirExists' = TRUE
            /\ pc' = "extract"
            /\ UNCHANGED outcome
    /\ UNCHANGED <<upload, extracted, idx, file_analyses, has_python_files,
                   all_python_content, validation_message, ai_analysis,
                   is_valid, calls, rmtree_log, exc>>

\* lines 168-181: file.read(), zipfile.ZipFile(...), extractall
Extract ==
    /\ pc = "extract"
    /\ IF upload.kind = "ok"
       THEN /\ extracted' = upload.files
            /\ pc' = "walk"
            /\ UNCHANGED exc
       ELSE /\ exc' = IF upload.kind = "badzip" THEN "BadZipFile" ELSE "read"
            /\ pc' = "except"
            /\ UNCHANGED extracted
    /\ idx' = 1
    /\ file_analyses' = <<>>
    /\ has_python_files' = FALSE
    /\ all_python_content' = <<>>
    /\ UNCHANGED <<upload, dirExists, created, validation_message,
                   ai_analysis, is_valid, calls, rmtree_log, outcome>>

\* one call of get_ai_analysis, as the log keeps it
Call(scope, text, result, nrecords) ==
    [scope |-> scope, text |-> text, result |-> result, records |-> nrecords]

\* lines 183-193: one iteration of the walk over the extracted files
AnalyzeFile ==
    /\ pc = "walk"
    /\ idx <= Len(extracted)
    /\ \E b \in BackendOutcomes :
         LET f == extracted[idx]
             r == analyze_file_content(f, b)
             analysis == r.record
         IN
         /\ file_analyses' = Append(file_analyses, analysis)
         /\ calls' = calls \o
                [i \in 1..Len(r.sent) |->
                    Call("file", r.sent[i], analysis.ai_analysis,
                         Len(file_analyses))]
         /\ IF IsPython(f.name)
            THEN /\ has_python_files' = TRUE
                 /\ all_python_content' =
                       IF "content" \in DOMAIN analysis
                       THEN Append(all_python_content, analysis.content)
                       ELSE all_python_content
            ELSE UNCHANGED <<has_python_files, all_python_content>>
    /\ idx' = idx + 1
    /\ UNCHANGED <<upload, pc, dirExists, created, extracted,
                   validation_message, ai_analysis, is_valid, rmtree_log,
                   exc, outcome>>

\* an aggregate gate on the joined text instead of on the list
ShouldAggregateNonEmptyText(contents) == Join(Separator, contents) # <<>>

\* line 202: if all_python_content:
ShouldAggregate(contents) == contents # <<>>

\* a policy that rejects whatever does not carry the accept marker
IsRejectedUnlessAccepted(text) == ~Contains(text, AcceptMarker)

\* line 207: is_rejected = "X REJECT" in ai_analysis
IsRejected(text) == Contains(text, RejectMarker)

\* lines 195-212: the validation rules and the aggregate analysis
Policy ==
    /\ pc = "walk"
    /\ idx > Len(extracted)
    /\ \E b \in BackendOutcomes :
         LET msgs0 == IF ~has_python_files THEN <<MsgNoPython>> ELSE <<>>
             combined_content == Join(Separator, all_python_content)
             result == get_ai_analysis(combined_content, b)
         IN
         IF ShouldAggregate(all_python_content)
         THEN /\ calls' = Append(calls,
                     Call("aggregate", combined_content, result,
                          Len(file_analyses)))
              /\ ai_analysis' = result
              /\ IF result.null
                 THEN \* "X REJECT" in None raises TypeError
                      /\ exc' = "TypeError"
                      /\ pc' = "except"
                      /\ UNCHANGED <<validation_message, is_valid>>
                 ELSE LET msgs == IF IsRejected(result.s)
                                  THEN Append(msgs0, MsgPlaceholder)
                                  ELSE msgs0
                      IN /\ validation_message' = msgs
                         /\ is_valid' = (has_python_files /\ msgs = <<>>)
                         /\ pc' = "cleanup"
                         /\ UNCHANGED exc
         ELSE /\ ai_analysis' = None
              /\ validation_message' = msgs0
              /\ is_valid' = (has_python_files /\ msgs0 = <<>>)
              /\ pc' = "cleanup"
              /\ UNCHANGED <<calls, exc>>
    /\ UNCHANGED <<upload, dirExists, created, extracted, idx, file_analyses,
                   has_python_files, all_python_content, rmtree_log, outcome>>

\* lines 214-222: shutil.rmtree(extract_dir), then the verdict is returned
Cleanup ==
    /\ pc = "cleanup"
    /\ \E ok \in BOOLEAN :
         /\ rmtree_log' = Append(rmtree_log, ok)
         /\ IF ok
            THEN /\ dirExists' = FALSE
                 /\ outcome' = Verdict(is_valid,
                        IF is_valid THEN MsgSuccess
                        ELSE MsgFailedPrefix \o Join(MsgJoin, validation_message),
                        file_analyses, ai_analysis)
                 /\ pc' = "done"
                 /\ UNCHANGED exc
            ELSE /\ exc' = "rmtree"
                 /\ pc' = "except"
                 /\ UNCHANGED <<dirExists, outcome>>
    /\ UNCHANGED <<upload, created, extracted, idx, file_analyses,
                   has_python_files, all_python_content, validation_message,
                   ai_analysis, is_valid, calls>>

\* an exception handler that raises without removing the workspace
ExceptCleanupNoDelete ==
    /\ pc = "except"
    /\ pc' = "raise"
    /\ UNCHANGED <<upload, dirExists, created, extracted, idx, file_analyses,
                   has_python_files, all_python_content, validation_message,
                   ai_analysis, is_valid, calls, rmtree_log, exc, outcome>>

\* lines 224-227: the handler's cleanup; an rmtree that raises here leaves
\* the handler with that exception instead of the HTTPException
ExceptCleanup ==
    /\ pc = "except"
    /\ IF dirExists
       THEN \E ok \in BOOLEAN :
              /\ rmtree_log' = Append(rmtree_log, ok)
              /\ IF ok
                 THEN /\ dirExists' = FALSE
                      /\ pc' = "raise"
                      /\ UNCHANGED outcome
                 ELSE /\ outcome' = ServerError("unhandled", "rmtree")
                      /\ pc' = "done"
                      /\ UNCHANGED dirExists
       ELSE /\ pc' = "raise"
            /\ UNCHANGED <<dirExists, rmtree_log, outcome>>
    /\ UNCHANGED <<upload, created, extracted, idx, file_analyses,
                   has_python_files, all_python_content, validation_message,
                   ai_analysis, is_valid, calls, exc>>

\* line 228: raise HTTPException(status_code=500, detail=str(e))
RaiseServerError ==
    /\ pc = "raise"
    /\ outcome' = ServerError("http500", exc)
    /\ pc' = "done"
    /\ UNCHANGED <<upload, dirExists, created, extracted, idx, file_analyses,
                   has_python_files, all_python_content, validation_message,
                   ai_analysis, is_valid, calls, rmtree_log, exc>>

Next ==
    \/ CheckExtension
    \/ Extract
    \/ AnalyzeFile
    \/ Policy
    \/ Cleanup
    \/ ExceptCleanup
    \/ RaiseServerError

Spec == Init /\ [][Next]_vars

----------------------------------------------------------------------------
(* Vocabulary of the properties *)

AggregateCalls == SelectSeq(calls, LAMBDA c : c.scope = "aggregate")
FileCalls == SelectSeq(calls, LAMBDA c : c.scope = "file")

Returned == pc = "done" /\ outcome.kind = "verdict" /\ created
Failed == pc = "done" /\ outcome.kind \in {"http500", "unhandled"}

NameEndsInPy(name) == EndsWith(name, <<".", "p", "y">>)
SomePyName(files) == \E i \in 1..Len(files) : NameEndsInPy(files[i].name)

\* the walk is over and the validation rules have run
PolicyRan ==
    \/ pc = "cleanup"
    \/ Returned
    \/ exc \in {"TypeError", "rmtree"}

----------------------------------------------------------------------------
(* C1 *)

\* C1, as stated: once a request that created a workspace directory has
\* completed, the directory does not exist, on every exit path, and on the
\* fatal-error path it is already gone when the HTTP 500 is raised.
C1_WorkspaceAbsentOnEveryExit ==
    /\ (pc = "done" /\ created) => ~dirExists
    /\ pc = "raise" => ~dirExists

\* C1, amended: every completed request that created a workspace has
\* attempted the deletion, the directory is gone whenever the last
\* shutil.rmtree did not itself fail, and it is gone before the HTTP 500 is
\* raised.
C1_WorkspaceAbsentUnlessRmtreeFails ==
    /\ (pc = "done" /\ created) =>
          /\ rmtree_log # <<>>
          /\ rmtree_log[Len(rmtree_log)] => ~dirExists
    /\ pc = "raise" => ~dirExists

C1_Witness ==
    /\ pc = "done" /\ created
    /\ outcome.kind = "http500" /\ outcome.detail = "BadZipFile"
    /\ rmtree_log = <<TRUE>>
    /\ ~dirExists

----------------------------------------------------------------------------
(* C2 *)

\* C2: an upload named *.zip whose bytes are not a valid archive ends in a
\* structured rejection (isValid false with a message), never in a server
\* error, and nothing is extracted.
C2_MalformedArchiveIsRejectedNotError ==
    (pc = "done" /\ upload.kind = "badzip") =>
        /\ outcome.kind = "verdict"
        /\ ~outcome.isValid
        /\ outcome.message # <<>>
        /\ extracted = <<>>

----------------------------------------------------------------------------
(* C3 *)

\* C3: for an extracted archive, the verdict has isValid true exactly when
\* some extracted file name ends in '.py' and the aggregate analysis text
\* does not contain the reject marker; the accept marker plays no part, and
\* a reject marker gives isValid false with the placeholder message.
C3_ValidIffPythonAndNoRejectMarker ==
    Returned =>
        LET rejected == \E i \in 1..Len(AggregateCalls) :
                            /\ ~AggregateCalls[i].result.null
                            /\ Contains(AggregateCalls[i].result.s, RejectMarker)
        IN /\ outcome.isValid <=> (SomePyName(extracted) /\ ~rejected)
           /\ rejected => /\ ~outcome.isValid
                          /\ Contains(outcome.message, MsgPlaceholder)
           /\ outcome.isValid => outcome.message = MsgSuccess

C3_Witness ==
    /\ Returned
    /\ outcome.isValid
    /\ Len(AggregateCalls) = 1
    /\ AggregateCalls[1].result = Str(<<"o", "k">>)
    /\ ~Contains(outcome.ai_analysis.s, AcceptMarker)

----------------------------------------------------------------------------
(* C4 *)

\* C4: an extracted archive with no file name ending in '.py' gets isValid
\* false, a message containing 'No Python files found', a null ai_analysis
\* and no aggregate analysis call, whatever the per-file calls returned.
C4_NoPythonFilesIsInvalid ==
    /\ ~SomePyName(upload.files) => AggregateCalls = <<>>
    /\ (Returned /\ ~SomePyName(extracted)) =>
          /\ ~outcome.isValid
          /\ Contains(outcome.message, MsgNoPython)
          /\ outcome.ai_analysis = None

C4_Witness ==
    /\ Returned
    /\ extracted # <<>>
    /\ ~SomePyName(extracted)
    /\ \E i \in 1..Len(FileCalls) : FileCalls[i].result = Str(<<"o", "k">>)
    /\ ~outcome.isValid

----------------------------------------------------------------------------
(* C5 *)

\* C5: a file whose base name starts with '._' never causes an analysis
\* call, per-file or through the aggregate text, and its record is the
\* fixed hidden record.
C5_HiddenFileNeverAnalyzed ==
    /\ \A i \in 1..Len(file_analyses) :
          StartsWith(extracted[i].name, <<".", "_">>) =>
              /\ file_analyses[i].file_type = <<"hidden">>
              /\ file_analyses[i].content = HiddenContent
              /\ file_analyses[i].ai_analysis = Str(<<>>)
    /\ \A i \in 1..Len(calls) : ~Contains(calls[i].text, HiddenContent)
    /\ (\A i \in 1..Len(upload.files) :
            StartsWith(upload.files[i].name, <<".", "_">>)) => calls = <<>>

----------------------------------------------------------------------------
(* C6 *)

\* C6: a '.py' file longer than 1000 characters is handed untruncated to its
\* per-file analysis call and, inside the combined text, to the aggregate
\* call; only the stored preview is cut to 1000 characters plus '...'.
C6_AnalysisReceivesUntruncatedText ==
    \A i \in 1..Len(file_analyses) :
        LET f == extracted[i] IN
        (/\ NameEndsInPy(f.name)
         /\ ~StartsWith(f.name, <<".", "_">>)
         /\ f.decodable
         /\ Len(f.data) > PreviewLimit) =>
            /\ file_analyses[i].content =
                   SubSeq(f.data, 1, PreviewLimit) \o <<"...">>
            /\ \E j \in 1..Len(FileCalls) :
                   FileCalls[j].records = i - 1 /\ FileCalls[j].text = f.data
            /\ \A j \in 1..Len(AggregateCalls) :
                   Contains(AggregateCalls[j].text, f.data)

----------------------------------------------------------------------------
(* C7 *)

\* C7: get_ai_analysis always returns a non-null text, and no backend
\* outcome makes the request end in a server error: a request on a readable,
\* well-formed archive whose deletion succeeded never ends in one.
C7_AnalysisAlwaysTextAndNeverFatal ==
    /\ \A i \in 1..Len(calls) : ~calls[i].result.null
    /\ (Failed /\ upload.kind = "ok") =>
           \E i \in 1..Len(rmtree_log) : ~rmtree_log[i]

----------------------------------------------------------------------------
(* C8 *)

\* C8: a failing deletion is swallowed: where the pipeline has produced its
\* verdict, the next step returns that verdict whether or not the deletion
\* fails, and the deletion is attempted exactly once per request.
C8_CleanupFailureSwallowed ==
    [][ /\ pc = "cleanup" =>
            /\ outcome'.kind = "verdict"
            /\ outcome'.isValid = is_valid
        /\ Len(rmtree_log') <= 1
        /\ (pc' = "done" /\ created') => Len(rmtree_log') = 1 ]_vars

----------------------------------------------------------------------------
(* C9 *)

\* the text the aggregate call is about: the records' contents, joined
JoinedPythonContent ==
    Join(<<"\n", "\n">>,
         LET py == SelectSeq([i \in 1..Len(file_analyses) |-> i],
                     LAMBDA i : /\ NameEndsInPy(extracted[i].name)
                                /\ "content" \in DOMAIN file_analyses[i])
         IN [k \in 1..Len(py) |-> file_analyses[py[k]].content])

SomePythonContentRecord ==
    \E i \in 1..Len(file_analyses) :
        /\ NameEndsInPy(extracted[i].name)
        /\ "content" \in DOMAIN file_analyses[i]

AggregateAtMostOnceAfterWalk ==
    /\ Len(AggregateCalls) <= 1
    /\ \A i \in 1..Len(calls) :
          calls[i].scope = "aggregate" =>
              /\ i = Len(calls)
              /\ calls[i].records = Len(extracted)
              /\ Len(file_analyses) = Len(extracted)

\* C9, as stated: the aggregate call is made at most once, after every
\* per-file record, and only when the joined content is non-empty; with an
\* empty joined content no call is made and ai_analysis stays null.
C9_AggregateOnlyOnNonEmptyText ==
    /\ AggregateAtMostOnceAfterWalk
    /\ \A i \in 1..Len(AggregateCalls) : AggregateCalls[i].text # <<>>
    /\ (PolicyRan /\ JoinedPythonContent = <<>>) =>
          /\ AggregateCalls = <<>>
          /\ ai_analysis = None

\* C9, amended: the aggregate call is made at most once, after every
\* per-file record, exactly when at least one file named *.py produced a
\* record with a content field, even if the joined content is empty (a lone
\* empty '.py' file still causes the call); without such a record no call
\* is made and ai_analysis stays null.
C9_AggregateIffSomeContentRecord ==
    /\ AggregateAtMostOnceAfterWalk
    /\ PolicyRan =>
          /\ (AggregateCalls # <<>>) <=> SomePythonContentRecord
          /\ ~SomePythonContentRecord => ai_analysis = None

C9_Witness ==
    /\ Returned
    /\ Len(extracted) = 1
    /\ extracted[1].name = NamePy /\ extracted[1].data = <<>>
    /\ Len(AggregateCalls) = 1
    /\ AggregateCalls[1].text = <<>>
    /\ outcome.ai_analysis # None

----------------------------------------------------------------------------
(* C10 *)

\* C10: every verdict with isValid true carries a non-null ai_analysis: no
\* archive is accepted without an aggregate analysis call made and returned.
C10_ValidImpliesAnalysed ==
    (Returned /\ outcome.isValid) =>
        /\ outcome.ai_analysis # None
        /\ AggregateCalls # <<>>

====
